---- MODULE Spec2Model ----
(***************************************************************************)
(* Memory-Bot: the Memory API client (memory_client.py), the bot lifecycle *)
(* (bot.py), the command handlers (cmd_handlers.py) and the inference      *)
(* adapter (ai_services.py).                                               *)
(*                                                                         *)
(* Conventions.  A Python string is a sequence of text chunks, so that     *)
(* concatenation is \o and "contains" is a contiguous sub-sequence.        *)
(* Optional[T] is a sequence of length at most one: <<>> is None and <<x>> *)
(* is the value x.  An exception is a record [type, str, status, text].    *)
(***************************************************************************)
EXTENDS Integers, Sequences, FiniteSets, TLC

\* ------------------------------------------------------------------ bounds
MaxUuid == 2
MaxTypes == 2
MaxResults == 2
MaxCallers == 2

\* ------------------------------------------------------------ Python values
NoneV == <<>>
Some(x) == <<x>>
IsNone(o) == Len(o) = 0
Val(o) == o[1]

IsSubstr(s, t) ==
    \E i \in 0..(Len(t) - Len(s)) : SubSeq(t, i + 1, i + Len(s)) = s

SeqsUpTo(S, n) == UNION {[1..k -> S] : k \in 0..n}

\* uuid.UUID values are 1..MaxUuid; str(uuid) is the canonical text
UUIDs == 1..MaxUuid
Digits == <<"0", "1", "2", "3", "4", "5", "6", "7", "8", "9">>
Digit(n) == Digits[n + 1]
UuidStr(u) == <<"00000000-0000-0000-0000-00000000000", Digit(u)>>
UuidStrs == {UuidStr(u) : u \in UUIDs}
BadUuidStr == <<"zz">>
IsUuidStr(s) == s \in UuidStrs
ParseUuid(s) == CHOOSE u \in UUIDs : UuidStr(u) = s

\* datetime values are day numbers; isoformat() renders them
Dates == {1, 2}
Isoformat(d) == <<"2024-01-0", Digit(d), "T00:00:00">>

\* ---------------------------------------------------------------- config
BaseUrl == <<"http://memory-api:8000", "/">>

RECURSIVE Rstrip(_)
Rstrip(s) == IF Len(s) > 0 /\ s[Len(s)] = "/" THEN Rstrip(SubSeq(s, 1, Len(s) - 1)) ELSE s

ingest_url == Rstrip(BaseUrl) \o <<"/api/v1/ingest">>
retrieve_url == Rstrip(BaseUrl) \o <<"/api/v1/retrieve">>
item_url(id) == Rstrip(BaseUrl) \o <<"/api/v1/items/">> \o id
task_url(id) == Rstrip(BaseUrl) \o <<"/api/v1/tasks/">> \o id
health_url == Rstrip(BaseUrl) \o <<"/health">>

\* ------------------------------------------------------- exceptions
Exc(type, str, status, text) == [type |-> type, str |-> str, status |-> status, text |-> text]

MemoryAPIError(msg) == Exc("MemoryAPIError", msg, 0, <<>>)

\* what one client operation did: the HTTP requests it issued, and either
\* the value it returned or the exception that escaped it
Returned(reqs, v) == [requests |-> reqs, raised |-> NoneV, value |-> Some(v)]
Raised(reqs, e) == [requests |-> reqs, raised |-> Some(e), value |-> NoneV]

\* ------------------------------------------------- server and transport
Statuses == {200, 204, 302, 404, 500}
Bodies == {<<>>, <<"internal detail">>}
TransportFaults == {"ConnectError", "ReadTimeout"}

\* httpx.Response.is_success
IsSuccess(status) == status >= 200 /\ status <= 299

\* outcome of one HTTP exchange: a response (status, text, decoded body) or
\* a transport fault raised by the httpx call
Response(status, text, json) == [kind |-> "response", status |-> status, text |-> text,
                                 json |-> json, fault |-> "none"]
Fault(f, json) == [kind |-> "fault", status |-> 0, text |-> <<>>, json |-> json, fault |-> f]

NotJson(d) == [fmt |-> "notjson", data |-> d]
Json(d) == [fmt |-> "json", data |-> d]

NetOutcomes(Data) ==
    LET d0 == CHOOSE d \in Data : TRUE
    IN  {Response(s, t, NotJson(d0)) : s \in Statuses, t \in Bodies}
        \cup {Response(s, <<"{json}">>, Json(d)) : s \in {200, 204}, d \in Data}
        \cup {Fault(f, NotJson(d0)) : f \in TransportFaults}

Request(method, url, params, body) ==
    [method |-> method, url |-> url, params |-> params, body |-> body]

\* ------------------------------------------------------------ data model
\* a Dict[str, Any] is a set of <<key, kind of value>>; a value of kind
\* "object" (a datetime, a set, ...) has no JSON encoding
Dicts == {{}, {<<"tag", "str">>}, {<<"tag", "str">>, <<"when", "object">>}}
JsonEncodable(d) == \A kv \in d : kv[2] # "object"
JsonDumps(d) == <<"json.dumps", d>>

\* MemoryItemRaw
MemoryItemRaw(ct, text, uri, ts, meta) ==
    [content_type |-> ct, text_content |-> text, data_uri |-> uri,
     event_timestamp |-> ts, meta |-> meta, reply_to_id |-> NoneV]

\* item.model_dump(mode="json"): datetimes become ISO strings
ModelDump(item) ==
    [content_type |-> item.content_type, text_content |-> item.text_content,
     data_uri |-> item.data_uri, event_timestamp |-> Isoformat(item.event_timestamp),
     meta |-> item.meta, reply_to_id |-> item.reply_to_id]

\* decoded JSON bodies the server may answer with, per response model
Missing == <<"<missing>">>
IngestionData == [status : {<<"queued">>, Missing}, item_id : UuidStrs \cup {BadUuidStr}]
ItemData == [id : UuidStrs \cup {BadUuidStr}, event_timestamp : {Isoformat(1), Missing},
             text_content : {NoneV, Some(<<"note">>)}]
TaskData == [task_id : UuidStrs \cup {BadUuidStr}, status : {<<"pending">>, Missing}]
RelatedData == [item_id : UuidStrs \cup {BadUuidStr}, related_items : {NoneV, Some(<<>>)}]
Scores == {NoneV, Some(87)}
ResultData == [score : Scores, item : {[id |-> UuidStr(1), event_timestamp |-> Isoformat(1),
                                        text_content |-> Some(<<"note">>)]}]
RetrievalData == [query : {<<"hello">>}, results : {NoneV} \cup {Some(r) : r \in SeqsUpTo(ResultData, MaxResults)}]

\* pydantic model_validate: TRUE when the data satisfies the model
ValidItem(d) == IsUuidStr(d.id) /\ d.event_timestamp # Missing
ValidIngestion(d) == d.status # Missing /\ IsUuidStr(d.item_id)
ValidTask(d) == IsUuidStr(d.task_id) /\ d.status # Missing
ValidRelated(d) == IsUuidStr(d.item_id) /\ ~IsNone(d.related_items)
ValidRetrieval(d) ==
    /\ ~IsNone(d.results)
    /\ \A i \in 1..Len(Val(d.results)) : ValidItem(Val(d.results)[i].item)

\* the validated models

\* IngestionResponse that does not keep the item_id the server returned
IngestionResponse_anyid(d) == [status |-> d.status, item_id |-> CHOOSE u \in UUIDs : TRUE]

IngestionResponse(d) == [status |-> d.status, item_id |-> ParseUuid(d.item_id)]
MemoryItem(d) == [id |-> ParseUuid(d.id), event_timestamp |-> d.event_timestamp,
                  text_content |-> d.text_content]
TaskStatus(d) == [task_id |-> ParseUuid(d.task_id), status |-> d.status]
RelatedItemsResponse(d) == [item_id |-> ParseUuid(d.item_id), related_items |-> Val(d.related_items)]
RetrievalResponse(d) ==
    [query |-> d.query,
     results |-> [i \in 1..Len(Val(d.results)) |->
                    [score |-> Val(d.results)[i].score, item |-> MemoryItem(Val(d.results)[i].item)]]]

\* ------------------------------------------------------ Memory API client
\* the statements every try block starts with: send the request, then
\* response.raise_for_status() and response.json()
HttpExchange(req, net) ==
    IF net.kind = "fault"
    THEN Raised(<<req>>, Exc(net.fault, <<net.fault>>, 0, <<>>))
    ELSE IF ~IsSuccess(net.status)
    THEN Raised(<<req>>, Exc("HTTPStatusError", <<"status error for url">>, net.status, net.text))
    ELSE IF net.json.fmt = "notjson"
    THEN Raised(<<req>>, Exc("JSONDecodeError", <<"Expecting value">>, 0, <<>>))
    ELSE Returned(<<req>>, net.json.data)

\* Model.model_validate(data) on what the exchange returned
ValidationError == Exc("ValidationError", <<"validation errors for model">>, 0, <<>>)
Validated(got, valid, model) ==
    IF ~IsNone(got.raised) THEN got
    ELSE IF ~valid THEN Raised(got.requests, ValidationError)
    ELSE Returned(got.requests, model)

\* ingest_except with the server's body text left out of the message
ingest_except_nobody(e) ==
    IF e.type = "HTTPStatusError" THEN MemoryAPIError(<<"Failed to ingest item: ">>)
    ELSE IF e.type = "ValidationError" THEN MemoryAPIError(<<"Invalid response format: ">> \o e.str)
    ELSE MemoryAPIError(<<"Ingestion failed: ">> \o e.str)

ingest_except(e) ==
    IF e.type = "HTTPStatusError" THEN MemoryAPIError(<<"Failed to ingest item: ">> \o e.text)
    ELSE IF e.type = "ValidationError" THEN MemoryAPIError(<<"Invalid response format: ">> \o e.str)
    ELSE MemoryAPIError(<<"Ingestion failed: ">> \o e.str)

\* ingest that sends the request a second time after a failed exchange
ingest_retry(item, net) ==
    LET req == Request("POST", ingest_url, NoneV, Some(ModelDump(item)))
        got == HttpExchange(req, net)
        first == Validated(got, ValidIngestion(Val(got.value)), IngestionResponse(Val(got.value)))
    IN  IF IsNone(first.raised) THEN first
        ELSE Raised(<<req, req>>, ingest_except(Val(first.raised)))

ingest(item, net) ==
    LET got == HttpExchange(Request("POST", ingest_url, NoneV, Some(ModelDump(item))), net)
        body == IF ~JsonEncodable(item.meta)
                THEN Raised(<<>>, Exc("PydanticSerializationError", <<"Unable to serialize unknown type">>, 0, <<>>))
                ELSE Validated(got, ValidIngestion(Val(got.value)), IngestionResponse(Val(got.value)))
    IN  IF IsNone(body.raised) THEN body
        ELSE Raised(body.requests, ingest_except(Val(body.raised)))

RECURSIVE Join(_)
Join(parts) ==
    IF Len(parts) = 0 THEN <<>>
    ELSE IF Len(parts) = 1 THEN parts[1]
    ELSE parts[1] \o <<",">> \o Join(Tail(parts))

\* retrieve_params that sets content_types whenever the argument is given
retrieve_params_always(a) ==
    [query |-> Some(a.query), top_k |-> Some(a.top_k),
     include_context |-> Some(a.include_context),
     enable_reranking |-> Some(a.enable_reranking),
     filters |-> IF ~IsNone(a.filters) /\ Val(a.filters) # {}
                 THEN Some(JsonDumps(Val(a.filters))) ELSE NoneV,
     start_date |-> IF ~IsNone(a.start_date) THEN Some(Isoformat(Val(a.start_date))) ELSE NoneV,
     end_date |-> IF ~IsNone(a.end_date) THEN Some(Isoformat(Val(a.end_date))) ELSE NoneV,
     content_types |-> IF ~IsNone(a.content_types)
                       THEN Some(Join(Val(a.content_types))) ELSE NoneV]

\* the params dict of retrieve; a key that is not set maps to None
retrieve_params(a) ==
    [query |-> Some(a.query), top_k |-> Some(a.top_k),
     include_context |-> Some(a.include_context),
     enable_reranking |-> Some(a.enable_reranking),
     filters |-> IF ~IsNone(a.filters) /\ Val(a.filters) # {}
                 THEN Some(JsonDumps(Val(a.filters))) ELSE NoneV,
     start_date |-> IF ~IsNone(a.start_date) THEN Some(Isoformat(Val(a.start_date))) ELSE NoneV,
     end_date |-> IF ~IsNone(a.end_date) THEN Some(Isoformat(Val(a.end_date))) ELSE NoneV,
     content_types |-> IF ~IsNone(a.content_types) /\ Len(Val(a.content_types)) > 0
                       THEN Some(Join(Val(a.content_types))) ELSE NoneV]

retrieve_except(e) ==
    IF e.type = "HTTPStatusError" THEN MemoryAPIError(<<"Failed to retrieve items: ">> \o e.text)
    ELSE IF e.type = "ValidationError" THEN MemoryAPIError(<<"Invalid response format: ">> \o e.str)
    ELSE MemoryAPIError(<<"Retrieval failed: ">> \o e.str)

\* params are built before the try block: json.dumps raises there
retrieve(a, net) ==
    IF ~IsNone(a.filters) /\ Val(a.filters) # {} /\ ~JsonEncodable(Val(a.filters))
    THEN Raised(<<>>, Exc("TypeError", <<"Object is not JSON serializable">>, 0, <<>>))
    ELSE LET got == HttpExchange(Request("GET", retrieve_url, Some(retrieve_params(a)), NoneV), net)
             body == Validated(got, ValidRetrieval(Val(got.value)), RetrievalResponse(Val(got.value)))
         IN  IF IsNone(body.raised) THEN body
             ELSE Raised(body.requests, retrieve_except(Val(body.raised)))

get_item_except(item_id, e) ==
    IF e.type = "HTTPStatusError"
    THEN IF e.status = 404
         THEN MemoryAPIError(<<"Item ", "not found", ": ">> \o UuidStr(item_id))
         ELSE MemoryAPIError(<<"Failed to get item: ">> \o e.text)
    ELSE IF e.type = "ValidationError" THEN MemoryAPIError(<<"Invalid response format: ">> \o e.str)
    ELSE MemoryAPIError(<<"Get item failed: ">> \o e.str)

get_item(item_id, net) ==
    LET got == HttpExchange(Request("GET", item_url(UuidStr(item_id)), NoneV, NoneV), net)
        body == Validated(got, ValidItem(Val(got.value)), MemoryItem(Val(got.value)))
    IN  IF IsNone(body.raised) THEN body
        ELSE Raised(body.requests, get_item_except(item_id, Val(body.raised)))

get_related_items_except(item_id, e) ==
    IF e.type = "HTTPStatusError"
    THEN IF e.status = 404
         THEN MemoryAPIError(<<"Item ", "not found", ": ">> \o UuidStr(item_id))
         ELSE MemoryAPIError(<<"Failed to get related items: ">> \o e.text)
    ELSE IF e.type = "ValidationError" THEN MemoryAPIError(<<"Invalid response format: ">> \o e.str)
    ELSE MemoryAPIError(<<"Get related items failed: ">> \o e.str)

get_related_items(item_id, relationship_types, net) ==
    LET url == item_url(UuidStr(item_id)) \o <<"/related">>
        params == [relationship_types |->
                     IF ~IsNone(relationship_types) /\ Len(Val(relationship_types)) > 0
                     THEN Some(Join(Val(relationship_types))) ELSE NoneV]
        got == HttpExchange(Request("GET", url, Some(params), NoneV), net)
        body == Validated(got, ValidRelated(Val(got.value)), RelatedItemsResponse(Val(got.value)))
    IN  IF IsNone(body.raised) THEN body
        ELSE Raised(body.requests, get_related_items_except(item_id, Val(body.raised)))

\* get_task_status_except without the 404 branch
get_task_status_except_no404(task_id, e) ==
    IF e.type = "HTTPStatusError"
    THEN MemoryAPIError(<<"Failed to get task status: ">> \o e.text)
    ELSE IF e.type = "ValidationError" THEN MemoryAPIError(<<"Invalid response format: ">> \o e.str)
    ELSE MemoryAPIError(<<"Get task status failed: ">> \o e.str)

get_task_status_except(task_id, e) ==
    IF e.type = "HTTPStatusError"
    THEN IF e.status = 404
         THEN MemoryAPIError(<<"Task ", "not found", ": ">> \o UuidStr(task_id))
         ELSE MemoryAPIError(<<"Failed to get task status: ">> \o e.text)
    ELSE IF e.type = "ValidationError" THEN MemoryAPIError(<<"Invalid response format: ">> \o e.str)
    ELSE MemoryAPIError(<<"Get task status failed: ">> \o e.str)

get_task_status(task_id, net) ==
    LET got == HttpExchange(Request("GET", task_url(UuidStr(task_id)), NoneV, NoneV), net)
        body == Validated(got, ValidTask(Val(got.value)), TaskStatus(Val(got.value)))
    IN  IF IsNone(body.raised) THEN body
        ELSE Raised(body.requests, get_task_status_except(task_id, Val(body.raised)))

\* health_check that accepts every 2xx status
health_check_2xx(net) ==
    LET req == Request("GET", health_url, NoneV, NoneV)
    IN  IF net.kind = "fault" THEN Returned(<<req>>, FALSE)
        ELSE Returned(<<req>>, IsSuccess(net.status))

\* try: return response.status_code == 200; except Exception: return False
health_check(net) ==
    LET req == Request("GET", health_url, NoneV, NoneV)
    IN  IF net.kind = "fault" THEN Returned(<<req>>, FALSE)
        ELSE Returned(<<req>>, net.status = 200)

\* ------------------------------------------------------------------ state
\* call: the last Memory API client operation, [op, pc, args, net, out]
\* bot:  create_and_run_bot, its position, the MemoryBot fields and resources
\* cmd:  the last command handled by BotCommandHandler
VARIABLES call, bot, cmd, ai

vars == <<call, bot, cmd, ai>>

\* ------------------------------------------ inputs of the client operations
ClientItems ==
    {MemoryItemRaw(ct, text, NoneV, 1, meta) :
        ct \in {"text", "image"}, text \in {NoneV, Some(<<"hi">>)}, meta \in Dicts}

TypeNames == {<<"text">>, <<"image">>}

RetrieveArgs ==
    [query : {<<"hello">>}, top_k : {5, 10},
     filters : {NoneV} \cup {Some(d) : d \in Dicts},
     start_date : {NoneV, Some(1)}, end_date : {NoneV, Some(2)},
     content_types : {NoneV} \cup {Some(t) : t \in SeqsUpTo(TypeNames, MaxTypes)},
     include_context : BOOLEAN, enable_reranking : BOOLEAN]

RelationshipTypes == {NoneV, Some(<<>>), Some(<<(<<"similar">>)>>)}

IngestNets == NetOutcomes(IngestionData)
RetrievalNets == NetOutcomes(RetrievalData)
ItemNets == NetOutcomes(ItemData)
RelatedNets == NetOutcomes(RelatedData)
TaskNets == NetOutcomes(TaskData)

\* a client operation is invoked with its arguments (Invoke*), then runs
\* against the outcome of its HTTP exchange (Call*)
NoCall == [op |-> "none", pc |-> "idle", args |-> <<>>, net |-> NoneV, out |-> NoneV]
Invoked(op, args) == [op |-> op, pc |-> "called", args |-> args, net |-> NoneV, out |-> NoneV]
Completed(net, out) == [call EXCEPT !.pc = "done", !.net = Some(net), !.out = Some(out)]

InvokeIngest ==
    \E item \in ClientItems :
        /\ call = NoCall
        /\ call' = Invoked("ingest", [item |-> item])
        /\ UNCHANGED <<bot, cmd, ai>>

InvokeRetrieve ==
    \E a \in RetrieveArgs :
        /\ call = NoCall
        /\ call' = Invoked("retrieve", a)
        /\ UNCHANGED <<bot, cmd, ai>>

InvokeById ==
    \E op \in {"get_item", "get_task_status"}, id \in UUIDs :
        /\ call = NoCall
        /\ call' = Invoked(op, [id |-> id])
        /\ UNCHANGED <<bot, cmd, ai>>

InvokeGetRelatedItems ==
    \E id \in UUIDs, rt \in RelationshipTypes :
        /\ call = NoCall
        /\ call' = Invoked("get_related_items", [id |-> id, relationship_types |-> rt])
        /\ UNCHANGED <<bot, cmd, ai>>

InvokeHealthCheck ==
    /\ call = NoCall
    /\ call' = Invoked("health_check", <<>>)
    /\ UNCHANGED <<bot, cmd, ai>>

CallIngest ==
    /\ call.pc = "called" /\ call.op = "ingest"
    /\ \E net \in IngestNets : call' = Completed(net, ingest(call.args.item, net))
    /\ UNCHANGED <<bot, cmd, ai>>

CallRetrieve ==
    /\ call.pc = "called" /\ call.op = "retrieve"
    /\ \E net \in RetrievalNets : call' = Completed(net, retrieve(call.args, net))
    /\ UNCHANGED <<bot, cmd, ai>>

CallGetItem ==
    /\ call.pc = "called" /\ call.op = "get_item"
    /\ \E net \in ItemNets : call' = Completed(net, get_item(call.args.id, net))
    /\ UNCHANGED <<bot, cmd, ai>>

CallGetRelatedItems ==
    /\ call.pc = "called" /\ call.op = "get_related_items"
    /\ \E net \in RelatedNets :
          call' = Completed(net, get_related_items(call.args.id, call.args.relationship_types, net))
    /\ UNCHANGED <<bot, cmd, ai>>

CallGetTaskStatus ==
    /\ call.pc = "called" /\ call.op = "get_task_status"
    /\ \E net \in TaskNets : call' = Completed(net, get_task_status(call.args.id, net))
    /\ UNCHANGED <<bot, cmd, ai>>

CallHealthCheck ==
    /\ call.pc = "called" /\ call.op = "health_check"
    /\ \E net \in ItemNets : call' = Completed(net, health_check(net))
    /\ UNCHANGED <<bot, cmd, ai>>

NoCmd == [handler |-> "none", pc |-> "idle", update |-> NoneV, args |-> <<>>, env |-> NoneV, run |-> NoneV]

\* ------------------------------------------------------ inference adapter
\* AIServices.__init__: no model is loaded.  initialized and model are the
\* _llm_initialized/_asr_initialized flags and the llm_model/asr_model
\* attributes (TRUE when set); loads counts the runs of each loader since the
\* last cleanup; tasks are the coroutines calling the instance, each one at
\* the await it is suspended in
Callers == 1..MaxCallers
NoTask == [k |-> "none", pc |-> "idle", result |-> NoneV]
NoAI ==
    [initialized |-> [llm |-> FALSE, asr |-> FALSE], model |-> [llm |-> FALSE, asr |-> FALSE],
     loads |-> [llm |-> 0, asr |-> 0], tasks |-> [t \in Callers |-> NoTask]]

\* the try block of generate_chat_response / transcribe_audio up to its
\* await: the inference is handed to the executor
Infer(a, k, t) == [a EXCEPT !.tasks[t] = [k |-> k, pc |-> "inferring", result |-> NoneV]]

\* initialize_llm up to its await: it returns at once when the flag is set,
\* else it hands _load_llm to the executor
initialize_llm(a, t) ==
    IF a.initialized.llm THEN Infer(a, "llm", t)
    ELSE [a EXCEPT !.loads.llm = @ + 1,
                   !.tasks[t] = [k |-> "llm", pc |-> "loading", result |-> NoneV]]

initialize_asr(a, t) ==
    IF a.initialized.asr THEN Infer(a, "asr", t)
    ELSE [a EXCEPT !.loads.asr = @ + 1,
                   !.tasks[t] = [k |-> "asr", pc |-> "loading", result |-> NoneV]]

\* generate_chat_response up to its first await
generate_chat_response(a, t) ==
    IF ~a.initialized.llm \/ ~a.model.llm THEN initialize_llm(a, t) ELSE Infer(a, "llm", t)

\* transcribe_audio up to its first await
transcribe_audio(a, t) ==
    IF ~a.initialized.asr \/ ~a.model.asr THEN initialize_asr(a, t) ELSE Infer(a, "asr", t)

\* the loader of task t returns: the model and then the flag are set and the
\* caller goes on to its try block; when the loader raised (ok = FALSE) the
\* exception is re-raised and leaves the caller, whose await of
\* initialize_llm / initialize_asr is outside the try block
LoaderDone(a, t, ok) ==
    LET k == a.tasks[t].k
    IN  IF ok THEN Infer([a EXCEPT !.model[k] = TRUE, !.initialized[k] = TRUE], k, t)
        ELSE [a EXCEPT !.tasks[t].pc = "raised", !.tasks[t].result = Some("Exception")]

\* the inference of task t returns.  _generate and _transcribe assert that
\* the model is still set; generate_chat_response answers an exception with
\* its apology, while @logger.catch() makes _transcribe return None
InferenceDone(a, t, ok) ==
    LET k == a.tasks[t].k
        result == IF ok /\ a.model[k] THEN Some("output")
                  ELSE IF k = "llm" THEN Some("Sorry, I encountered an error while processing your message.")
                  ELSE NoneV
    IN  [a EXCEPT !.tasks[t].pc = "returned", !.tasks[t].result = result]

\* cleanup has no await: it drops both models and clears both flags
cleanup(a) ==
    [a EXCEPT !.model = [llm |-> FALSE, asr |-> FALSE],
              !.initialized = [llm |-> FALSE, asr |-> FALSE],
              !.loads = [llm |-> 0, asr |-> 0]]

CallGenerateChatResponse ==
    /\ \E t \in Callers : ai.tasks[t].pc = "idle" /\ ai' = generate_chat_response(ai, t)
    /\ UNCHANGED <<call, bot, cmd>>

CallTranscribeAudio ==
    /\ \E t \in Callers : ai.tasks[t].pc = "idle" /\ ai' = transcribe_audio(ai, t)
    /\ UNCHANGED <<call, bot, cmd>>

LoaderReturns ==
    /\ \E t \in Callers, ok \in BOOLEAN : ai.tasks[t].pc = "loading" /\ ai' = LoaderDone(ai, t, ok)
    /\ UNCHANGED <<call, bot, cmd>>

InferenceReturns ==
    /\ \E t \in Callers, ok \in BOOLEAN : ai.tasks[t].pc = "inferring" /\ ai' = InferenceDone(ai, t, ok)
    /\ UNCHANGED <<call, bot, cmd>>

Cleanup ==
    /\ ai' = cleanup(ai)
    /\ UNCHANGED <<call, bot, cmd>>

NextAI ==
    \/ CallGenerateChatResponse
    \/ CallTranscribeAudio
    \/ LoaderReturns
    \/ InferenceReturns
    \/ Cleanup

\* ---------------------------------------------------------- bot lifecycle
\* MemoryBot.__init__ leaves every collaborator unset.  pc is the method
\* create_and_run_bot is in and at the statement it is about to run; closes
\* counts the calls of MemoryAPIClient.close(); network is the set of
\* statements run so far that talk to a server; exc is the exception in
\* flight and failed_in the startup phase that raised; exit_status and
\* printed are set when main.py ends the process
NoBot ==
    [pc |-> "idle", at |-> 0, memory_client |-> FALSE, minio_client |-> FALSE,
     application |-> FALSE, app_running |-> FALSE, polling |-> FALSE, closes |-> 0,
     warnings |-> {}, network |-> {}, exc |-> NoneV, propagated |-> NoneV,
     failed_in |-> "none", exit_status |-> NoneV, printed |-> NoneV]

Init == call = NoCall /\ bot = NoBot /\ cmd = NoCmd /\ ai = NoAI

\* CreateBot that constructs the clients before the configuration is validated
CreateBot_lazyconfig ==
    /\ bot.pc = "idle"
    /\ \E config_ok \in BOOLEAN :
          bot' = IF config_ok
                 THEN [bot EXCEPT !.pc = "initialize", !.at = 1]
                 ELSE [bot EXCEPT !.pc = "exited", !.exc = Some("ValidationError"),
                                  !.failed_in = "config", !.memory_client = TRUE, !.minio_client = TRUE,
                                  !.network = {"minio.initialize"}]
    /\ UNCHANGED <<call, cmd, ai>>

\* config = BotConfig() raises a ValidationError when a required value is
\* missing, before the try block; otherwise bot = MemoryBot(config)
CreateBot ==
    /\ bot.pc = "idle"
    /\ \E config_ok \in BOOLEAN :
          bot' = IF config_ok
                 THEN [bot EXCEPT !.pc = "initialize", !.at = 1]
                 ELSE [bot EXCEPT !.pc = "exited", !.exc = Some("ValidationError"),
                                  !.failed_in = "config"]
    /\ UNCHANGED <<call, cmd, ai>>

\* an exception raised inside the try block of create_and_run_bot: control
\* goes to the finally block, which calls bot.stop()
RaiseInTry(b, exc) ==
    [b EXCEPT !.exc = Some(exc), !.pc = "stop", !.at = 1,
              !.failed_in = IF b.pc \in {"initialize", "start"} THEN b.pc ELSE @]

\* the statements of initialize and start that send a request to MinIO, the
\* Memory API or Telegram
NetworkSteps == {"minio.initialize", "set_my_commands", "memory_client.health_check",
                 "minio_client.health_check", "application.initialize", "start_polling"}
Calls(b, stmt) == [b EXCEPT !.network = IF stmt \in NetworkSteps THEN @ \cup {stmt} ELSE @]

\* the statements of MemoryBot.initialize, in order
InitializeSteps == <<"MemoryAPIClient", "MinIOClient", "minio.initialize",
                     "ApplicationBuilder.build", "set_my_commands">>

\* MemoryBot.initialize runs statement b.at; ok is FALSE when it raises
\* (constructing the MemoryAPIClient opens the pool and does not raise)
initialize(b, ok) ==
    LET stmt == InitializeSteps[b.at]
        called == Calls(b, stmt)
        next == IF b.at < Len(InitializeSteps) THEN [called EXCEPT !.at = @ + 1]
                ELSE [called EXCEPT !.pc = "start", !.at = 1]
    IN  IF stmt = "MemoryAPIClient" THEN [next EXCEPT !.memory_client = TRUE]
        ELSE IF ~ok THEN RaiseInTry(called, "Exception")
        ELSE IF stmt = "MinIOClient" THEN [next EXCEPT !.minio_client = TRUE]
        ELSE IF stmt = "ApplicationBuilder.build" THEN [next EXCEPT !.application = TRUE]
        ELSE next

Initialize ==
    /\ bot.pc = "initialize"
    /\ \E ok \in BOOLEAN : bot' = initialize(bot, ok)
    /\ UNCHANGED <<call, cmd, ai>>

\* the statements of MemoryBot.start, in order
StartSteps == <<"memory_client.health_check", "minio_client.health_check",
                "application.initialize", "application.start", "start_polling">>

\* start that gives up when the Memory API health check returns FALSE
start_strict(b, ok) ==
    LET stmt == StartSteps[b.at]
        called == IF stmt = "memory_client.health_check" /\ ~b.memory_client THEN b
                  ELSE IF stmt = "minio_client.health_check" /\ ~b.minio_client THEN b
                  ELSE Calls(b, stmt)
        next == IF b.at < Len(StartSteps) THEN [called EXCEPT !.at = @ + 1]
                ELSE [called EXCEPT !.pc = "running", !.at = 0]
    IN  IF ~b.application THEN RaiseInTry(b, "Exception")
        ELSE IF ~ok THEN RaiseInTry(called, "Exception")
        ELSE IF stmt = "application.start" THEN [next EXCEPT !.app_running = TRUE]
        ELSE IF stmt = "start_polling" THEN [next EXCEPT !.polling = TRUE]
        ELSE next

\* MemoryBot.start runs statement b.at; a health check that returns FALSE
\* (ok = FALSE) only logs a warning, the other statements raise
start(b, ok) ==
    LET stmt == StartSteps[b.at]
        called == IF stmt = "memory_client.health_check" /\ ~b.memory_client THEN b
                  ELSE IF stmt = "minio_client.health_check" /\ ~b.minio_client THEN b
                  ELSE Calls(b, stmt)
        next == IF b.at < Len(StartSteps) THEN [called EXCEPT !.at = @ + 1]
                ELSE [called EXCEPT !.pc = "running", !.at = 0]
    IN  IF ~b.application THEN RaiseInTry(b, "Exception")
        ELSE IF stmt = "memory_client.health_check"
        THEN [next EXCEPT !.warnings = IF b.memory_client /\ ~ok
                                       THEN @ \cup {"Memory API not working"} ELSE @]
        ELSE IF stmt = "minio_client.health_check"
        THEN [next EXCEPT !.warnings = IF b.minio_client /\ ~ok
                                       THEN @ \cup {"MinIO not working"} ELSE @]
        ELSE IF ~ok THEN RaiseInTry(called, "Exception")
        ELSE IF stmt = "application.start" THEN [next EXCEPT !.app_running = TRUE]
        ELSE IF stmt = "start_polling" THEN [next EXCEPT !.polling = TRUE]
        ELSE next

Start ==
    /\ bot.pc = "start"
    /\ \E ok \in BOOLEAN : bot' = start(bot, ok)
    /\ UNCHANGED <<call, cmd, ai>>

\* await asyncio.Future() ends only when the task is cancelled or interrupted
Shutdown ==
    /\ bot.pc = "running"
    /\ \E signal \in {"CancelledError", "KeyboardInterrupt"} : bot' = RaiseInTry(bot, signal)
    /\ UNCHANGED <<call, cmd, ai>>

\* what leaves create_and_run_bot: the except clauses swallow KeyboardInterrupt
\* and re-raise Exception, and @logger.catch() then swallows Exception
Propagated(exc) ==
    IF ~IsNone(exc) /\ Val(exc) = "CancelledError" THEN exc ELSE NoneV

\* the statements of MemoryBot.stop, in order
StopSteps == <<"updater.stop", "application.stop", "application.shutdown", "memory_client.close">>

\* MemoryBot.stop runs statement b.at, or skips it when its if is false; a
\* teardown call that raises (ok = FALSE) ends stop() and the finally block
stop(b, ok) ==
    LET stmt == StopSteps[b.at]
        next == IF b.at < Len(StopSteps) THEN [b EXCEPT !.at = @ + 1]
                ELSE [b EXCEPT !.pc = "exited", !.at = 0, !.propagated = Propagated(b.exc)]
        raise == [b EXCEPT !.pc = "exited", !.at = 0, !.exc = Some("Exception"),
                           !.propagated = Propagated(Some("Exception"))]
    IN  IF stmt = "memory_client.close"
        THEN IF b.memory_client THEN [next EXCEPT !.closes = @ + 1] ELSE next
        ELSE IF ~b.application \/ (stmt = "updater.stop" /\ ~b.polling) THEN next
        ELSE IF ~ok THEN raise
        ELSE IF stmt = "updater.stop" THEN [next EXCEPT !.polling = FALSE]
        ELSE IF stmt = "application.stop" THEN [next EXCEPT !.app_running = FALSE]
        ELSE next

\* the finally block of create_and_run_bot
Stop ==
    /\ bot.pc = "stop"
    /\ \E ok \in BOOLEAN : bot' = stop(bot, ok)
    /\ UNCHANGED <<call, cmd, ai>>

\* main.py: asyncio.run(main()) around create_and_run_bot.  What left
\* create_and_run_bot reaches the except clauses of main.py: Exception prints
\* the failure and exits with status 1, KeyboardInterrupt prints the farewell;
\* a cancelled main task surfaces as KeyboardInterrupt when the cancellation
\* came from SIGINT and as an uncaught CancelledError otherwise
main(b, sigint) ==
    LET left == IF ~IsNone(b.propagated) /\ Val(b.propagated) = "CancelledError" /\ sigint
                THEN Some("KeyboardInterrupt") ELSE b.propagated
    IN  IF IsNone(left) THEN [b EXCEPT !.pc = "terminated", !.exit_status = Some(0)]
        ELSE IF Val(left) = "KeyboardInterrupt"
        THEN [b EXCEPT !.pc = "terminated", !.exit_status = Some(0),
                       !.printed = Some("Bot stopped by user")]
        ELSE IF Val(left) = "CancelledError"
        THEN [b EXCEPT !.pc = "terminated", !.exit_status = Some(1)]
        ELSE [b EXCEPT !.pc = "terminated", !.exit_status = Some(1),
                       !.printed = Some("Bot failed to start")]

Main ==
    /\ bot.pc = "exited"
    /\ \E sigint \in BOOLEAN : bot' = main(bot, sigint)
    /\ UNCHANGED <<call, cmd, ai>>

NextBot ==
    \/ CreateBot
    \/ Initialize
    \/ Start
    \/ Shutdown
    \/ Stop
    \/ Main

SpecBot == Init /\ [][NextBot]_vars

SpecAI == Init /\ [][NextAI]_vars

\* ------------------------------------------------------- command handlers
\* a Telegram message: text, caption, the attachment attributes that are
\* set, and the message it replies to
AttachmentAttrs == {"photo", "voice", "video", "document", "audio", "video_note", "sticker"}

TgMessage(id, text, caption, media, reply) ==
    [message_id |-> id, text |-> text, caption |-> caption, media |-> media,
     date |-> id, from_user |-> id, reply_to_message |-> reply]

\* the file_id of the attachment attr of message m; a photo is a tuple of
\* sizes, smallest first
FileId(m, attr) == <<"file-", attr, "-", Digit(m.message_id)>>
PhotoSizes(m) == << [file_id |-> FileId(m, "photo-small"), file_name |-> NoneV],
                    [file_id |-> FileId(m, "photo-large"), file_name |-> NoneV] >>
Attachment(m, attr) == [file_id |-> FileId(m, attr), file_name |-> NoneV]

\* a or b on Optional[str]
StrOr(a, b) == IF ~IsNone(a) /\ Val(a) # <<>> THEN a ELSE b

\* the mapping list of _create_msg_memoryitem: attribute, media type, file name
mapping ==
    << [attr |-> "photo", media_type |-> "image", prefix |-> "photo_", ext |-> ".jpg", named |-> FALSE],
       [attr |-> "voice", media_type |-> "audio", prefix |-> "voice_", ext |-> ".ogg", named |-> FALSE],
       [attr |-> "video", media_type |-> "video", prefix |-> "video_", ext |-> ".mp4", named |-> FALSE],
       [attr |-> "document", media_type |-> "document", prefix |-> "document_", ext |-> "", named |-> TRUE],
       [attr |-> "audio", media_type |-> "audio", prefix |-> "audio_", ext |-> ".mp3", named |-> TRUE],
       [attr |-> "video_note", media_type |-> "video", prefix |-> "video_note_", ext |-> ".mp4", named |-> FALSE],
       [attr |-> "sticker", media_type |-> "image", prefix |-> "sticker_", ext |-> ".webp", named |-> FALSE] >>

get_filename(entry, obj) ==
    IF entry.named /\ ~IsNone(obj.file_name) /\ Val(obj.file_name) # <<>>
    THEN Val(obj.file_name)
    ELSE <<entry.prefix>> \o obj.file_id \o <<entry.ext>>

\* the loop keeping the first matching entry instead of the last
RECURSIVE SelectMedia_first(_, _, _)
SelectMedia_first(m, i, sel) ==
    IF i > Len(mapping) THEN sel
    ELSE LET entry == mapping[i]
             obj == IF entry.attr = "photo" THEN PhotoSizes(m)[Len(PhotoSizes(m))]
                    ELSE Attachment(m, entry.attr)
         IN  SelectMedia_first(m, i + 1,
                IF entry.attr \in m.media /\ IsNone(sel.media_obj)
                THEN [content_type |-> entry.media_type, media_obj |-> Some(obj),
                      media_type |-> Some(entry.media_type),
                      file_name |-> Some(get_filename(entry, obj))]
                ELSE [sel EXCEPT !.media_type = Some(entry.media_type)])

\* the for loop over mapping, from entry i on; sel holds content_type,
\* media_obj, media_type and file_name.  media_type is the loop variable: it
\* is assigned on every iteration, the other three only on a match
RECURSIVE SelectMedia(_, _, _)
SelectMedia(m, i, sel) ==
    IF i > Len(mapping) THEN sel
    ELSE LET entry == mapping[i]
             obj == IF entry.attr = "photo" THEN PhotoSizes(m)[Len(PhotoSizes(m))]
                    ELSE Attachment(m, entry.attr)
         IN  SelectMedia(m, i + 1,
                IF entry.attr \in m.media
                THEN [content_type |-> entry.media_type, media_obj |-> Some(obj),
                      media_type |-> Some(entry.media_type),
                      file_name |-> Some(get_filename(entry, obj))]
                ELSE [sel EXCEPT !.media_type = Some(entry.media_type)])

\* how storing the attachment ends
StorageOutcomes == {"stored", "bot instance not set", "download failed", "object store error"}

\* _store_telegram_file: the object URL, or the exception it re-raises
_store_telegram_file(file_id, file_name, storage) ==
    IF storage = "bot instance not set" THEN Raised(<<>>, Exc("RuntimeError", <<"Bot instance not set">>, 0, <<>>))
    ELSE IF storage = "download failed" THEN Raised(<<>>, Exc("TelegramError", <<"download failed">>, 0, <<>>))
    ELSE IF storage = "object store error" THEN Raised(<<>>, Exc("MinIOClientError", <<"Failed to store data">>, 0, <<>>))
    ELSE Returned(<<>>, <<"http://minio:9000/memory/telegram/">> \o file_name)

\* extract the origin metadata of a message: entries <<key, kind, value>>.
\* Both messages are in one private chat, which has no title; from_user is
\* the author of the message
ChatId == "chat-7"
UserNames == <<"alice", "bob">>
_extract_message_meta(m) ==
    {<<"source", "str", "telegram">>, <<"message_id", "int", Digit(m.message_id)>>,
     <<"chat_id", "int", ChatId>>, <<"chat_type", "str", "private">>,
     <<"user_id", "int", Digit(m.from_user)>>, <<"username", "str", UserNames[m.from_user]>>,
     <<"first_name", "str", UserNames[m.from_user]>>, <<"last_name", "NoneType", "None">>}

\* mem_message that is always the command message
mem_message_self(message) == message

\* the message to remember: the replied-to message when there is one
mem_message(message) ==
    IF ~IsNone(message.reply_to_message) THEN Val(message.reply_to_message) ELSE message

\* _create_msg_memoryitem that gives the capture up when storing fails
_create_msg_memoryitem_lossy(message, storage) ==
    LET src == mem_message(message)
        sel == SelectMedia(src, 1,
                  [content_type |-> "text", media_obj |-> NoneV, media_type |-> NoneV, file_name |-> NoneV])
        stored == _store_telegram_file(Val(sel.media_obj).file_id, Val(sel.file_name), storage)
    IN  IF sel.content_type # "text" /\ ~IsNone(stored.raised) THEN NoneV
        ELSE Some(MemoryItemRaw(sel.content_type, StrOr(src.text, src.caption),
                                IF sel.content_type = "text" THEN NoneV ELSE stored.value,
                                src.date, _extract_message_meta(src)))

\* _create_msg_memoryitem returns Optional[MemoryItemRaw]
_create_msg_memoryitem(message, storage) ==
    LET src == mem_message(message)
        sel == SelectMedia(src, 1,
                  [content_type |-> "text", media_obj |-> NoneV, media_type |-> NoneV, file_name |-> NoneV])
        stored == _store_telegram_file(Val(sel.media_obj).file_id, Val(sel.file_name), storage)
        data_uri == IF sel.content_type = "text" THEN NoneV
                    ELSE IF IsNone(stored.raised) THEN stored.value
                    ELSE Some(<<"telegram_", Val(sel.media_type), ":">> \o Val(sel.media_obj).file_id)
    IN  Some(MemoryItemRaw(sel.content_type, StrOr(src.text, src.caption),
                           data_uri, src.date, _extract_message_meta(src)))

\* what one handler run did: the Memory API calls it made, the reply_text
\* calls it made (delivered is FALSE when the call raised) and the exception
\* that left the handler
Run(api, replies, propagated) == [api |-> api, replies |-> replies, propagated |-> propagated]
Reply(text, delivered) == [text |-> text, delivered |-> delivered]
ApiCall(op, arg, out) == [op |-> op, arg |-> arg, requests |-> out.requests, raised |-> out.raised]
TelegramError == Exc("TelegramError", <<"send failed">>, 0, <<>>)

\* a reply_text call inside the try block, with the generic reply of the
\* except Exception clause behind it; r[i] tells whether the i-th reply_text
\* call of the run succeeds
ReplyInTry(api, text, generic, r) ==
    IF r[1] THEN Run(api, <<Reply(text, TRUE)>>, NoneV)
    ELSE Run(api, <<Reply(text, FALSE), Reply(generic, r[2])>>,
             IF r[2] THEN NoneV ELSE Some(TelegramError))

\* a reply_text call that no try block covers: an except clause, or the
\* usage reply
ReplyUncovered(api, text, r) ==
    Run(api, <<Reply(text, r[1])>>, IF r[1] THEN NoneV ELSE Some(TelegramError))

NoContentText == <<"No content to remember", ". Either reply to a message or include content in your message.">>
RememberGenericText == <<"An unexpected error occurred while saving memory.">>
RememberErrorText(e) == <<"Failed to save memory: ">> \o e.str
RememberSavedText(response) ==
    <<"Memory saved: Item ID: ">> \o UuidStr(response.item_id) \o <<" Status: ">> \o response.status

\* handle_remember_cmd without the except MemoryAPIError clause
handle_remember_cmd_catchall(update, storage, net, r) ==
    IF IsNone(update) THEN Run(<<>>, <<>>, NoneV)
    ELSE LET memory_item == _create_msg_memoryitem(Val(update), storage)
             out == ingest(Val(memory_item), net)
             api == <<ApiCall("ingest", Val(memory_item), out)>>
         IN  IF IsNone(memory_item)
             THEN ReplyInTry(<<>>, NoContentText, RememberGenericText, r)
             ELSE IF ~IsNone(out.raised)
             THEN ReplyUncovered(api, RememberGenericText, r)
             ELSE ReplyInTry(api, RememberSavedText(Val(out.value)), RememberGenericText, r)

handle_remember_cmd(update, storage, net, r) ==
    IF IsNone(update) THEN Run(<<>>, <<>>, NoneV)
    ELSE LET memory_item == _create_msg_memoryitem(Val(update), storage)
             out == ingest(Val(memory_item), net)
             api == <<ApiCall("ingest", Val(memory_item), out)>>
         IN  IF IsNone(memory_item)
             THEN ReplyInTry(<<>>, NoContentText, RememberGenericText, r)
             ELSE IF ~IsNone(out.raised)
             THEN ReplyUncovered(api, RememberErrorText(Val(out.raised)), r)
             ELSE ReplyInTry(api, RememberSavedText(Val(out.value)), RememberGenericText, r)

\* f"{score:.2f}" of a score given in hundredths
Format2f(score) == <<Digit(score \div 100), ".", Digit((score \div 10) % 10), Digit(score % 10)>>

\* telegram.helpers.escape_markdown(text, version=2) puts a backslash before
\* each of these characters (and the backquote, which no text here contains);
\* a chunk of several characters is plain text
MarkdownSpecials ==
    {"_", "*", "[", "]", "(", ")", "~", ">", "#", "+", "-", "=", "|", "{", "}", ".", "!"}

\* the characters lo..hi of s, escaped (by halves)
RECURSIVE EscapeRange(_, _, _)
EscapeRange(s, lo, hi) ==
    IF lo > hi THEN <<>>
    ELSE IF lo = hi THEN (IF s[lo] \in MarkdownSpecials THEN <<"\\", s[lo]>> ELSE <<s[lo]>>)
    ELSE EscapeRange(s, lo, (lo + hi) \div 2) \o EscapeRange(s, (lo + hi) \div 2 + 1, hi)
escape_markdown(s) == EscapeRange(s, 1, Len(s))

\* "\n".join([f">{line}" for line in content.split("\n")])
RECURSIVE QuoteRange(_, _, _)
QuoteRange(s, lo, hi) ==
    IF lo > hi THEN <<>>
    ELSE IF lo = hi THEN (IF s[lo] = "\n" THEN <<"\n", ">">> ELSE <<s[lo]>>)
    ELSE QuoteRange(s, lo, (lo + hi) \div 2) \o QuoteRange(s, (lo + hi) \div 2 + 1, hi)
QuoteLines(s) == <<">">> \o QuoteRange(s, 1, Len(s))

\* strftime("%Y-%m-%d %H:%M") of a timestamp the server sent in ISO format
Strftime(iso) == <<iso[1], iso[2], " 00:00">>

\* the display limit of a result's body text and the characters kept of a
\* longer one; body texts are sequences of characters
ContentLimit == 300
ContentKeep == 297
Ellipsis == <<".", ".", ".">>
NoTextContent == <<"[", "No text content", "]">>

\* the rendering of result i: rank and score, quoted body text, time and id
ResultBlock(i, score, content, timestamp, id) ==
    <<"*", Digit(i), "\\", ".", " ", "\\", "(", "Score: ">> \o score \o <<"\\", ")", "*", "\n">>
    \o content \o <<"\n", "\n", "time: ">> \o timestamp \o <<"\n", "id: ">> \o id \o <<"\n", "\n">>

\* the loop of _fmt_search_results cutting a long body text after
\* ContentLimit characters
RECURSIVE FormatResults_cutlate(_, _)
FormatResults_cutlate(results, i) ==
    IF i > Len(results) THEN <<>>
    ELSE LET item == results[i].item
             content == Val(StrOr(item.text_content, Some(NoTextContent)))
             shown == IF Len(content) > ContentLimit
                      THEN SubSeq(content, 1, ContentLimit) \o Ellipsis ELSE content
         IN  ResultBlock(i, escape_markdown(Format2f(Val(results[i].score))),
                         QuoteLines(escape_markdown(shown)),
                         escape_markdown(Strftime(item.event_timestamp)), UuidStr(item.id))
             \o FormatResults_cutlate(results, i + 1)

\* the loop of _fmt_search_results, from result i on
RECURSIVE FormatResults(_, _)
FormatResults(results, i) ==
    IF i > Len(results) THEN <<>>
    ELSE LET item == results[i].item
             content == Val(StrOr(item.text_content, Some(NoTextContent)))
             shown == IF Len(content) > ContentLimit
                      THEN SubSeq(content, 1, ContentKeep) \o Ellipsis ELSE content
         IN  ResultBlock(i, escape_markdown(Format2f(Val(results[i].score))),
                         QuoteLines(escape_markdown(shown)),
                         escape_markdown(Strftime(item.event_timestamp)), UuidStr(item.id))
             \o FormatResults(results, i + 1)

\* _fmt_search_results: formatting a score of None raises TypeError
_fmt_search_results(response, query) ==
    IF \E i \in 1..Len(response.results) : IsNone(response.results[i].score)
    THEN Raised(<<>>, Exc("TypeError", <<"unsupported format string passed to NoneType.__format__">>, 0, <<>>))
    ELSE Returned(<<>>, <<"Search Results for: ">> \o escape_markdown(query)
                        \o <<"\n", "\n">> \o FormatResults(response.results, 1))

RECURSIVE JoinWords(_)
JoinWords(words) ==
    IF Len(words) = 0 THEN <<>>
    ELSE IF Len(words) = 1 THEN words[1]
    ELSE words[1] \o <<" ">> \o JoinWords(Tail(words))

QueryArgs(query) ==
    [query |-> query, top_k |-> 5, filters |-> NoneV, start_date |-> NoneV, end_date |-> NoneV,
     content_types |-> NoneV, include_context |-> FALSE, enable_reranking |-> TRUE]

QueryUsageText == <<"Please provide a search query. Usage: /query <search terms>">>
QueryGenericText == <<"An unexpected error occurred during search.">>
QueryErrorText(e) == <<"Search failed: ">> \o e.str
NoMemoriesText(query) == <<"No memories found", " for: ">> \o escape_markdown(query)

\* handle_query_cmd without the branch for an empty results list
handle_query_cmd_noempty(update, args, net, r) ==
    IF IsNone(update) THEN Run(<<>>, <<>>, NoneV)
    ELSE IF Len(args) = 0 THEN ReplyUncovered(<<>>, QueryUsageText, r)
    ELSE LET query == JoinWords(args)
             out == retrieve(QueryArgs(query), net)
             api == <<ApiCall("retrieve", QueryArgs(query), out)>>
             formatted == _fmt_search_results(Val(out.value), query)
         IN  IF ~IsNone(out.raised)
             THEN ReplyUncovered(api, QueryErrorText(Val(out.raised)), r)
             ELSE IF ~IsNone(formatted.raised)
             THEN ReplyUncovered(api, QueryGenericText, r)
             ELSE ReplyInTry(api, Val(formatted.value), QueryGenericText, r)

handle_query_cmd(update, args, net, r) ==
    IF IsNone(update) THEN Run(<<>>, <<>>, NoneV)
    ELSE IF Len(args) = 0 THEN ReplyUncovered(<<>>, QueryUsageText, r)
    ELSE LET query == JoinWords(args)
             out == retrieve(QueryArgs(query), net)
             api == <<ApiCall("retrieve", QueryArgs(query), out)>>
             formatted == _fmt_search_results(Val(out.value), query)
         IN  IF ~IsNone(out.raised)
             THEN ReplyUncovered(api, QueryErrorText(Val(out.raised)), r)
             ELSE IF Len(Val(out.value).results) = 0
             THEN ReplyInTry(api, NoMemoriesText(query), QueryGenericText, r)
             ELSE IF ~IsNone(formatted.raised)
             THEN ReplyUncovered(api, QueryGenericText, r)
             ELSE ReplyInTry(api, Val(formatted.value), QueryGenericText, r)

_fmt_memory_item(item) ==
    <<"Memory Item Details ID: ">> \o UuidStr(item.id) \o <<" Event Time: ">> \o item.event_timestamp
    \o <<" Content: ">> \o (IF IsNone(item.text_content) THEN <<"[No text content]">>
                              ELSE Val(item.text_content))

GetItemUsageText == <<"Please provide an item ID. Usage: /get_item <item_id>">>
GetItemGenericText == <<"An unexpected error occurred while retrieving the item.">>
GetItemErrorText(e) == <<"Failed to retrieve item: ">> \o e.str
InvalidIdText == <<"Invalid item ID format", ". Please provide a valid UUID.">>

\* handle_get_item_cmd answering an unparseable item id with the usage text
handle_get_item_cmd_lenient(update, args, net, r) ==
    IF IsNone(update) THEN Run(<<>>, <<>>, NoneV)
    ELSE IF Len(args) = 0 \/ ~IsUuidStr(args[1]) THEN ReplyUncovered(<<>>, GetItemUsageText, r)
    ELSE LET item_id == ParseUuid(args[1])
             out == get_item(item_id, net)
             api == <<ApiCall("get_item", item_id, out)>>
         IN  IF ~IsNone(out.raised)
             THEN ReplyUncovered(api, GetItemErrorText(Val(out.raised)), r)
             ELSE ReplyInTry(api, _fmt_memory_item(Val(out.value)), GetItemGenericText, r)

handle_get_item_cmd(update, args, net, r) ==
    IF IsNone(update) THEN Run(<<>>, <<>>, NoneV)
    ELSE IF Len(args) = 0 THEN ReplyUncovered(<<>>, GetItemUsageText, r)
    ELSE IF ~IsUuidStr(args[1]) THEN ReplyUncovered(<<>>, InvalidIdText, r)
    ELSE LET item_id == ParseUuid(args[1])
             out == get_item(item_id, net)
             api == <<ApiCall("get_item", item_id, out)>>
         IN  IF ~IsNone(out.raised)
             THEN ReplyUncovered(api, GetItemErrorText(Val(out.raised)), r)
             ELSE ReplyInTry(api, _fmt_memory_item(Val(out.value)), GetItemGenericText, r)

\* ------------------------------------------------ inputs of the handlers
RepliedMessages ==
    {TgMessage(2, text, NoneV, {}, NoneV) : text \in {NoneV, Some(<<"note">>)}}
    \cup {TgMessage(2, NoneV, caption, media, NoneV) :
             caption \in {NoneV, Some(<<"caption">>)}, media \in (SUBSET AttachmentAttrs) \ {{}}}

\* a command message is a text message; an update that is not a new message
\* (an edited message) has update.message None
RememberUpdates ==
    {NoneV, Some(TgMessage(1, Some(<<"/remember">>), NoneV, {}, NoneV))}
    \cup {Some(TgMessage(1, Some(<<"/remember">>), NoneV, {}, Some(m))) : m \in RepliedMessages}

QueryUpdates == {NoneV, Some(TgMessage(1, Some(<<"/query">>), NoneV, {}, NoneV))}
QueryWords == {<<>>, << <<"hello">> >>, << <<"project">>, <<"notes">> >>}

GetItemUpdates == {NoneV, Some(TgMessage(1, Some(<<"/get_item">>), NoneV, {}, NoneV))}
GetItemWords == {<<>>, <<BadUuidStr>>} \cup {<<u>> : u \in UuidStrs} \cup {<<UuidStr(1), <<"extra">> >>}

\* what the server answers a /query with: results whose body text is absent,
\* short, exactly ContentLimit characters long, or one character longer; a
\* long text starts with a special character and a line break
BodyText(n) ==
    [i \in 1..n |-> IF i = 1 THEN "_" ELSE IF i = 2 THEN "\n"
                    ELSE IF i = n - 1 THEN "." ELSE Digit(i % 10)]
BodyTexts == {NoneV, Some(<<"note">>), Some(BodyText(ContentLimit)), Some(BodyText(ContentLimit + 1))}
QueryResultData ==
    [score : Scores,
     item : {[id |-> UuidStr(1), event_timestamp |-> Isoformat(1), text_content |-> t] : t \in BodyTexts}]
QueryData == [query : {<<"hello">>},
              results : {NoneV} \cup {Some(r) : r \in SeqsUpTo(QueryResultData, MaxResults)}]
QueryNets == NetOutcomes(QueryData)

ReplyOutcomes == [1..2 -> BOOLEAN]

Received(handler, update, args) ==
    [handler |-> handler, pc |-> "received", update |-> update, args |-> args,
     env |-> NoneV, run |-> NoneV]
Handled(env, run) == [cmd EXCEPT !.pc = "done", !.env = Some(env), !.run = Some(run)]

ReceiveRemember ==
    /\ cmd = NoCmd
    /\ \E update \in RememberUpdates : cmd' = Received("remember", update, <<>>)
    /\ UNCHANGED <<call, bot, ai>>

ReceiveQuery ==
    /\ cmd = NoCmd
    /\ \E update \in QueryUpdates, args \in QueryWords : cmd' = Received("query", update, args)
    /\ UNCHANGED <<call, bot, ai>>

ReceiveGetItem ==
    /\ cmd = NoCmd
    /\ \E update \in GetItemUpdates, args \in GetItemWords : cmd' = Received("get_item", update, args)
    /\ UNCHANGED <<call, bot, ai>>

HandleRemember ==
    /\ cmd.handler = "remember" /\ cmd.pc = "received"
    /\ \E storage \in StorageOutcomes, net \in IngestNets, r \in ReplyOutcomes :
          cmd' = Handled([storage |-> storage, net |-> net],
                         handle_remember_cmd(cmd.update, storage, net, r))
    /\ UNCHANGED <<call, bot, ai>>

HandleQuery ==
    /\ cmd.handler = "query" /\ cmd.pc = "received"
    /\ \E net \in QueryNets, r \in ReplyOutcomes :
          cmd' = Handled([storage |-> "stored", net |-> net],
                         handle_query_cmd(cmd.update, cmd.args, net, r))
    /\ UNCHANGED <<call, bot, ai>>

HandleGetItem ==
    /\ cmd.handler = "get_item" /\ cmd.pc = "received"
    /\ \E net \in ItemNets, r \in ReplyOutcomes :
          cmd' = Handled([storage |-> "stored", net |-> net],
                         handle_get_item_cmd(cmd.update, cmd.args, net, r))
    /\ UNCHANGED <<call, bot, ai>>

NextHandlers ==
    \/ ReceiveRemember
    \/ ReceiveQuery
    \/ ReceiveGetItem
    \/ HandleRemember
    \/ HandleQuery
    \/ HandleGetItem

SpecHandlers == Init /\ [][NextHandlers]_vars

NextClient ==
    \/ InvokeIngest
    \/ InvokeRetrieve
    \/ InvokeById
    \/ InvokeGetRelatedItems
    \/ InvokeHealthCheck
    \/ CallIngest
    \/ CallRetrieve
    \/ CallGetItem
    \/ CallGetRelatedItems
    \/ CallGetTaskStatus
    \/ CallHealthCheck

SpecClient == Init /\ [][NextClient]_vars

\* ============================================================ client claims
FetchOps == {"ingest", "retrieve", "get_item", "get_related_items", "get_task_status"}
IdOps == {"get_item", "get_related_items", "get_task_status"}

CallDone == call.pc = "done"
Out == Val(call.out)
Net == Val(call.net)
OutExc == Val(Out.raised)
RaisesMemoryAPIError == ~IsNone(Out.raised) /\ OutExc.type = "MemoryAPIError"
\* the server answered the operation's request with a non-2xx status
AnsweredNon2xx == Len(Out.requests) > 0 /\ Net.kind = "response" /\ ~IsSuccess(Net.status)

\* C1: whatever escapes ingest, retrieve, get_item, get_related_items or
\* get_task_status is a MemoryAPIError, for every input and every outcome.
C1_OnlyMemoryAPIErrorEscapes ==
    (CallDone /\ call.op \in FetchOps /\ ~IsNone(Out.raised)) => OutExc.type = "MemoryAPIError"

\* C2: a non-2xx answer (any for ingest and retrieve, any but 404 for the
\* id-addressed lookups) raises MemoryAPIError whose message contains the
\* response body text.
C2_StatusErrorCarriesBody ==
    (CallDone /\ call.op \in FetchOps /\ AnsweredNon2xx
       /\ (call.op \in {"ingest", "retrieve"} \/ Net.status # 404))
    => (RaisesMemoryAPIError /\ IsSubstr(Net.text, OutExc.str))

C2_Witness ==
    /\ CallDone /\ call.op = "ingest" /\ AnsweredNon2xx /\ Net.status = 404
    /\ Net.text = <<"internal detail">>
    /\ RaisesMemoryAPIError /\ OutExc.str = <<"Failed to ingest item: ", "internal detail">>

\* C3: a 404 answer to get_item, get_related_items or get_task_status raises
\* MemoryAPIError whose message contains "not found" and the requested id;
\* for get_item the message is exactly "Item not found: <id>".
C3_NotFoundNamesId ==
    (CallDone /\ call.op \in IdOps /\ AnsweredNon2xx /\ Net.status = 404)
    => /\ RaisesMemoryAPIError
       /\ IsSubstr(<<"not found">>, OutExc.str)
       /\ IsSubstr(UuidStr(call.args.id), OutExc.str)
       /\ call.op = "get_item" => OutExc.str = <<"Item ", "not found", ": ">> \o UuidStr(call.args.id)

C3_Witness ==
    /\ CallDone /\ call.op = "get_task_status" /\ AnsweredNon2xx /\ Net.status = 404
    /\ call.args.id = 2 /\ Net.text = <<"internal detail">>
    /\ RaisesMemoryAPIError /\ OutExc.str = <<"Task ", "not found", ": ">> \o UuidStr(2)

\* C4: health_check never raises; it returns true exactly when the GET
\* completes with status 200 and false on every fault or other status.
C4_HealthCheckTotal ==
    (CallDone /\ call.op = "health_check")
    => /\ IsNone(Out.raised)
       /\ Out.value = Some(Net.kind = "response" /\ Net.status = 200)

C4_Witness ==
    /\ CallDone /\ call.op = "health_check"
    /\ Net.kind = "response" /\ Net.status = 204 /\ Out.value = Some(FALSE)

\* C6: every operation issues at most one HTTP request; after a failed
\* request nothing is re-sent and the failure is reported once, as one
\* MemoryAPIError or as false from health_check.
RequestFailed ==
    /\ Len(Out.requests) > 0
    /\ \/ Net.kind = "fault"
       \/ IF call.op = "health_check" THEN Net.status # 200 ELSE ~IsSuccess(Net.status)

C6_SingleAttempt ==
    CallDone
    => /\ Len(Out.requests) <= 1
       /\ RequestFailed
            => IF call.op = "health_check"
               THEN IsNone(Out.raised) /\ Out.value = Some(FALSE)
               ELSE RaisesMemoryAPIError /\ IsNone(Out.value)

C6_Witness ==
    /\ CallDone /\ call.op = "ingest" /\ Net.kind = "fault" /\ Net.fault = "ReadTimeout"
    /\ Len(Out.requests) = 1 /\ RaisesMemoryAPIError

\* C7: a retrieve request always carries query, top_k, include_context and
\* enable_reranking; it carries filters (JSON), start_date and end_date (ISO)
\* and content_types (comma-joined in input order) exactly when the argument
\* is supplied and non-empty.
RetrieveSent == CallDone /\ call.op = "retrieve" /\ Len(Out.requests) > 0
SentParams == Val(Out.requests[1].params)

\* s is the strings of parts, in order, separated by single commas
CommaJoined(s, parts) ==
    /\ Len(s) = 2 * Len(parts) - 1
    /\ \A i \in 1..Len(parts) : <<s[2 * i - 1]>> = parts[i]
    /\ \A i \in 1..(Len(parts) - 1) : s[2 * i] = ","

C7_RetrieveParams ==
    RetrieveSent
    => LET a == call.args
           p == SentParams
       IN  /\ p.query = Some(a.query) /\ p.top_k = Some(a.top_k)
           /\ p.include_context = Some(a.include_context)
           /\ p.enable_reranking = Some(a.enable_reranking)
           /\ ~IsNone(p.filters) <=> (~IsNone(a.filters) /\ Val(a.filters) # {})
           /\ ~IsNone(p.filters) => Val(p.filters) = <<"json.dumps", Val(a.filters)>>
           /\ ~IsNone(p.start_date) <=> ~IsNone(a.start_date)
           /\ ~IsNone(p.start_date) => Val(p.start_date) = <<"2024-01-0", Digit(Val(a.start_date)), "T00:00:00">>
           /\ ~IsNone(p.end_date) <=> ~IsNone(a.end_date)
           /\ ~IsNone(p.end_date) => Val(p.end_date) = <<"2024-01-0", Digit(Val(a.end_date)), "T00:00:00">>
           /\ ~IsNone(p.content_types) <=> (~IsNone(a.content_types) /\ Val(a.content_types) # <<>>)
           /\ ~IsNone(p.content_types) => CommaJoined(Val(p.content_types), Val(a.content_types))
           /\ a.content_types = Some(<< <<"text">>, <<"image">> >>)
                => p.content_types = Some(<<"text", ",", "image">>)

C7_Witness ==
    /\ RetrieveSent
    /\ call.args.content_types = Some(<< <<"text">>, <<"image">> >>)
    /\ SentParams.content_types = Some(<<"text", ",", "image">>)
    /\ call.args.filters = Some({<<"tag", "str">>}) /\ ~IsNone(SentParams.filters)
    /\ IsNone(call.args.start_date) /\ IsNone(SentParams.start_date)
    /\ ~IsNone(SentParams.end_date)

\* ======================================================= lifecycle claims
\* C5: on every exit path of create_and_run_bot after the MemoryAPIClient was
\* constructed, close() has run exactly once.
C5_ClosedExactlyOnce ==
    (bot.pc = "exited" /\ bot.memory_client) => bot.closes = 1

\* ========================================================= handler claims
CmdDone == cmd.pc = "done" /\ ~IsNone(cmd.update)
TheRun == Val(cmd.run)
Env == Val(cmd.env)
\* the message /remember captures: the replied-to message when there is one
Captured ==
    IF ~IsNone(Val(cmd.update).reply_to_message) THEN Val(Val(cmd.update).reply_to_message)
    ELSE Val(cmd.update)
Delivered == {i \in 1..Len(TheRun.replies) : TheRun.replies[i].delivered}

\* C8: with no attachment and no text or caption, handle_remember_cmd sends
\* the "No content to remember" notice and does not call ingest.
C8_NoContentNoIngest ==
    (CmdDone /\ cmd.handler = "remember"
       /\ Captured.media = {} /\ IsNone(Captured.text) /\ IsNone(Captured.caption))
    => /\ TheRun.api = <<>>
       /\ Len(TheRun.replies) > 0
       /\ IsSubstr(<<"No content to remember">>, TheRun.replies[1].text)

\* C9: when the message has an attachment and storing it fails, ingest is
\* still called exactly once, with data_uri telegram_<media_type>:<file_id>
\* carrying the file_id of the selected (last-matching) attachment.
MappingIndex(attr) == CHOOSE i \in 1..Len(mapping) : mapping[i].attr = attr
LastMatching(media) ==
    CHOOSE attr \in media : \A other \in media : MappingIndex(other) <= MappingIndex(attr)
SelectedFileId(m) ==
    IF LastMatching(m.media) = "photo" THEN <<"file-", "photo-large", "-", Digit(m.message_id)>>
    ELSE <<"file-", LastMatching(m.media), "-", Digit(m.message_id)>>
MediaTypeNames == {"image", "audio", "video", "document"}

C9_StorageFailureKeepsCapture ==
    (CmdDone /\ cmd.handler = "remember" /\ Captured.media # {} /\ Env.storage # "stored")
    => /\ Len(TheRun.api) = 1
       /\ TheRun.api[1].op = "ingest"
       /\ Len(TheRun.api[1].requests) <= 1
       /\ \E mt \in MediaTypeNames :
             TheRun.api[1].arg.data_uri = Some(<<"telegram_", mt, ":">> \o SelectedFileId(Captured))

C9_Witness ==
    /\ CmdDone /\ cmd.handler = "remember"
    /\ Captured.media = {"photo", "voice"} /\ Env.storage = "object store error"
    /\ Len(TheRun.api) = 1
    /\ TheRun.api[1].arg.data_uri = Some(<<"telegram_", "image", ":", "file-", "voice", "-", "2">>)

\* the texts each handler replies with on a failure
GenericText ==
    IF cmd.handler = "remember" THEN <<"An unexpected error occurred while saving memory.">>
    ELSE IF cmd.handler = "query" THEN <<"An unexpected error occurred during search.">>
    ELSE <<"An unexpected error occurred while retrieving the item.">>
ErrorPrefix ==
    IF cmd.handler = "remember" THEN <<"Failed to save memory: ">>
    ELSE IF cmd.handler = "query" THEN <<"Search failed: ">>
    ELSE <<"Failed to retrieve item: ">>

ApiRaised == Len(TheRun.api) = 1 /\ ~IsNone(TheRun.api[1].raised)
\* UUID(context.args[0]) raised ValueError
UuidValueError ==
    cmd.handler = "get_item" /\ Len(cmd.args) > 0 /\ cmd.args[1] \notin UuidStrs
\* _fmt_search_results raised on a result without a score
FormatTypeError ==
    /\ cmd.handler = "query" /\ Len(TheRun.api) = 1 /\ ~ApiRaised
    /\ Env.net.json.fmt = "json"
    /\ \E i \in 1..Len(Val(Env.net.json.data.results)) :
          Val(Env.net.json.data.results)[i].score = <<>>
\* a reply_text call inside the try block raised
ReplyRaisedInTry == Len(TheRun.replies) = 2
OtherExceptionInTry == UuidValueError \/ FormatTypeError \/ ReplyRaisedInTry
LastReply == TheRun.replies[Len(TheRun.replies)]

OnMemoryAPIError ==
    ApiRaised
    => /\ Val(TheRun.api[1].raised).type = "MemoryAPIError"
       /\ Len(TheRun.replies) = 1
       /\ TheRun.replies[1].text = ErrorPrefix \o Val(TheRun.api[1].raised).str
       /\ ~IsNone(TheRun.propagated) => Val(TheRun.propagated).type # "MemoryAPIError"

AtMostOneReplySent == Cardinality(Delivered) <= 1

\* C10 as stated: MemoryAPIError gives one reply built from the error, every
\* other exception in the try block gives the generic fallback reply, and
\* two replies are never sent.
C10_AsStated ==
    CmdDone
    => /\ OnMemoryAPIError
       /\ OtherExceptionInTry => LastReply.text = GenericText
       /\ AtMostOneReplySent

\* C10 amended: as stated, except that handle_get_item_cmd answers the
\* ValueError of an unparseable item id with the fixed "Invalid item ID
\* format" reply instead of the generic fallback; an exception in the try
\* block is followed by exactly one reply_text call.
C10_HandlerReplies ==
    CmdDone
    => /\ OnMemoryAPIError
       /\ (OtherExceptionInTry /\ ~UuidValueError) => LastReply.text = GenericText
       /\ UuidValueError
            => LastReply.text = <<"Invalid item ID format", ". Please provide a valid UUID.">>
       /\ (UuidValueError \/ FormatTypeError) => Len(TheRun.replies) = 1
       /\ AtMostOneReplySent

C10_Witness ==
    /\ CmdDone /\ cmd.handler = "remember" /\ ApiRaised
    /\ Env.net.kind = "fault"
    /\ TheRun.replies = <<Reply(<<"Failed to save memory: ", "Ingestion failed: ", "ReadTimeout">>, TRUE)>>
    /\ IsNone(TheRun.propagated)

\* texts that are internal detail: the server's response body, the dump of a
\* schema validation error, the text of a transport or decoding exception
InternalTexts ==
    {<<"internal detail">>, <<"validation errors for model">>, <<"Expecting value">>,
     <<"ConnectError">>, <<"ReadTimeout">>}

\* C11: no reply a command handler sends on a failure path contains the
\* server's raw response body, a validation error dump or transport
\* exception text, whatever the server returned and whichever failure occurred.
C11_NoInternalDetailInReplies ==
    (CmdDone /\ ApiRaised)
    => \A i \in Delivered :
          \A detail \in InternalTexts : ~IsSubstr(detail, TheRun.replies[i].text)

\* ================================================== client claims, continued
\* the server answered the ingest POST with a 2xx status and a JSON body
\* {status, item_id} whose item_id is a valid UUID
IngestAnswered ==
    /\ CallDone /\ call.op = "ingest" /\ Len(Out.requests) = 1
    /\ Net.kind = "response" /\ Net.status >= 200 /\ Net.status <= 299
    /\ Net.json.fmt = "json"
    /\ Net.json.data.status # <<"<missing>">>
    /\ \E u \in UUIDs : Net.json.data.item_id = <<"00000000-0000-0000-0000-00000000000", Digit(u)>>

\* C12: when the server answers the ingest POST with 2xx and a JSON body
\* {status, item_id} with a valid UUID, ingest returns an IngestionResponse
\* whose status and item_id equal the values the server returned.
C12_IngestRoundTrip ==
    IngestAnswered
    => /\ IsNone(Out.raised)
       /\ Val(Out.value).status = Net.json.data.status
       /\ <<"00000000-0000-0000-0000-00000000000", Digit(Val(Out.value).item_id)>> = Net.json.data.item_id

C12_Witness ==
    /\ IngestAnswered /\ Net.status = 204
    /\ Net.json.data = [status |-> <<"queued">>, item_id |-> <<"00000000-0000-0000-0000-00000000000", "2">>]
    /\ Out.value = Some([status |-> <<"queued">>, item_id |-> 2])

\* ================================================ handler claims, continued
\* retrieve returned a RetrievalResponse whose results list is empty
EmptyResults ==
    /\ cmd.handler = "query" /\ Len(TheRun.api) = 1 /\ ~ApiRaised
    /\ Env.net.json.fmt = "json" /\ Env.net.json.data.results = Some(<<>>)
RepliesWith(text) == {i \in 1..Len(TheRun.replies) : IsSubstr(text, TheRun.replies[i].text)}

\* C13: when retrieve returns an empty results list, handle_query_cmd sends
\* exactly one "No memories found" reply and no formatted result list; every
\* retrieve call of handle_query_cmd asks for top_k = 5.
C13_EmptyResultsNotice ==
    (CmdDone /\ cmd.handler = "query")
    => /\ \A i \in 1..Len(TheRun.api) :
             /\ TheRun.api[i].op = "retrieve"
             /\ TheRun.api[i].arg.top_k = 5
             /\ \A j \in 1..Len(TheRun.api[i].requests) : Val(TheRun.api[i].requests[j].params).top_k = Some(5)
       /\ EmptyResults
            => /\ RepliesWith(<<"No memories found">>) = {1}
               /\ RepliesWith(<<"Search Results for: ">>) = {}

C13_Witness ==
    /\ CmdDone /\ EmptyResults /\ cmd.args = << <<"hello">> >>
    /\ Len(TheRun.api[1].requests) = 1
    /\ TheRun.replies = <<Reply(<<"No memories found", " for: ", "hello">>, TRUE)>>

\* the content type and the file name rule of each attachment attribute
TypeOfAttr(attr) ==
    CASE attr \in {"photo", "sticker"} -> "image"
      [] attr \in {"voice", "audio"} -> "audio"
      [] attr \in {"video", "video_note"} -> "video"
      [] attr = "document" -> "document"
FileNameOfAttr(attr, file_id) ==
    CASE attr = "photo" -> <<"photo_">> \o file_id \o <<".jpg">>
      [] attr = "voice" -> <<"voice_">> \o file_id \o <<".ogg">>
      [] attr = "video" -> <<"video_">> \o file_id \o <<".mp4">>
      [] attr = "document" -> <<"document_">> \o file_id \o <<"">>
      [] attr = "audio" -> <<"audio_">> \o file_id \o <<".mp3">>
      [] attr = "video_note" -> <<"video_note_">> \o file_id \o <<".mp4">>
      [] attr = "sticker" -> <<"sticker_">> \o file_id \o <<".webp">>
IsSuffix(s, t) == Len(s) <= Len(t) /\ SubSeq(t, Len(t) - Len(s) + 1, Len(t)) = s
RememberedItem == TheRun.api[1].arg

\* C14: for a message with any non-empty set of attachment attributes, the
\* item's content_type, the file_id that is stored and the generated file
\* name all come from the last-matching entry of the list photo, voice,
\* video, document, audio, video_note, sticker.
C14_LastMatchingEntryWins ==
    (CmdDone /\ cmd.handler = "remember" /\ Captured.media # {})
    => /\ Len(TheRun.api) = 1
       /\ RememberedItem.content_type = TypeOfAttr(LastMatching(Captured.media))
       /\ Env.storage = "stored"
            => IsSuffix(FileNameOfAttr(LastMatching(Captured.media), SelectedFileId(Captured)),
                        Val(RememberedItem.data_uri))
       /\ Env.storage # "stored"
            => IsSuffix(<<":">> \o SelectedFileId(Captured), Val(RememberedItem.data_uri))

C14_Witness ==
    /\ CmdDone /\ cmd.handler = "remember" /\ Env.storage = "stored"
    /\ Captured.media = {"photo", "video", "audio"}
    /\ RememberedItem.content_type = "audio"
    /\ RememberedItem.data_uri
         = Some(<<"http://minio:9000/memory/telegram/", "audio_", "file-", "audio", "-", "2", ".mp3">>)

\* C15: every MemoryItemRaw the handler builds and passes to ingest has
\* content_type in {text, image, audio, video, web_link}, for every
\* combination of attachment attributes on the message.
C15_ContentTypeInSchema ==
    (CmdDone /\ cmd.handler = "remember")
    => \A i \in 1..Len(TheRun.api) :
          TheRun.api[i].arg.content_type \in {"text", "image", "audio", "video", "web_link"}

\* ============================================== lifecycle claims, continued
ConfigRejected == bot.pc = "exited" /\ bot.exc = Some("ValidationError")

\* C16: when a required configuration value is missing, create_and_run_bot
\* fails at configuration validation: no MemoryAPIClient, MinIO client or
\* application has been constructed and no network call has been made.
C16_ConfigFailsFirst ==
    ConfigRejected
    => /\ ~bot.memory_client /\ ~bot.minio_client /\ ~bot.application
       /\ ~bot.app_running /\ ~bot.polling
       /\ bot.network = {} /\ bot.closes = 0 /\ bot.warnings = {}

C16_Witness ==
    /\ ConfigRejected /\ bot.network = {} /\ ~bot.memory_client /\ IsNone(bot.propagated)

\* start() is about to run one of its two health checks
AtHealthCheck == bot.pc = "start" /\ bot.at \in {1, 2}

\* C17: whatever the Memory API and MinIO health checks return, start()
\* continues with the next statement; a false result changes nothing but the
\* logged warnings.
C17_HealthCheckNeverAborts ==
    [][AtHealthCheck
         => /\ bot'.pc = "start" /\ bot'.at = bot.at + 1
            /\ bot'.exc = bot.exc
            /\ [bot' EXCEPT !.at = bot.at, !.warnings = bot.warnings, !.network = bot.network] = bot]_vars

C17_Witness ==
    /\ bot.pc = "running" /\ bot.app_running /\ bot.polling
    /\ bot.warnings = {"Memory API not working", "MinIO not working"}
    /\ {"application.initialize", "start_polling"} \subseteq bot.network

\* ====================================================== inference claims
\* C18: between cleanups each loader runs at most once, for every
\* interleaving of concurrent generate_chat_response calls and of concurrent
\* transcribe_audio calls on one AIServices instance.
C18_LoadedAtMostOnce ==
    ai.loads.llm <= 1 /\ ai.loads.asr <= 1

\* the command message of the update, and whether it replies to a message
Command == Val(cmd.update)
IsReply == ~IsNone(Command.reply_to_message)
MetaOf(item, key) == {kv[3] : kv \in {e \in item.meta : e[1] = key}}
\* the item's text, attachment, timestamp and meta are those of message m
TakenFrom(item, m) ==
    /\ item.text_content = (IF ~IsNone(m.text) THEN m.text ELSE m.caption)
    /\ item.event_timestamp = m.date
    /\ MetaOf(item, "message_id") = {Digit(m.message_id)}
    /\ MetaOf(item, "user_id") = {Digit(m.from_user)}
    /\ IF m.media = {} THEN item.content_type = "text" /\ IsNone(item.data_uri)
       ELSE /\ item.content_type # "text"
            /\ IsSubstr(SelectedFileId(m), Val(item.data_uri))

\* C19: when the /remember command message replies to another message, the
\* item's text_content, attachment, event_timestamp and meta are those of
\* the replied-to message and none is taken from the command message;
\* otherwise they are those of the command message.
C19_ReplyIsTheSource ==
    (CmdDone /\ cmd.handler = "remember" /\ Len(TheRun.api) = 1)
    => IF IsReply
       THEN /\ TakenFrom(RememberedItem, Val(Command.reply_to_message))
            /\ RememberedItem.text_content # Command.text
            /\ RememberedItem.event_timestamp # Command.date
            /\ Digit(Command.message_id) \notin MetaOf(RememberedItem, "message_id")
            /\ Digit(Command.from_user) \notin MetaOf(RememberedItem, "user_id")
       ELSE TakenFrom(RememberedItem, Command)

C19_Witness ==
    /\ CmdDone /\ cmd.handler = "remember" /\ IsReply /\ Len(TheRun.api) = 1
    /\ Command.message_id = 1 /\ Val(Command.reply_to_message).message_id = 2
    /\ RememberedItem.text_content = Some(<<"caption">>)
    /\ RememberedItem.event_timestamp = 2
    /\ <<"message_id", "int", "2">> \in RememberedItem.meta
    /\ RememberedItem.data_uri = Some(<<"http://minio:9000/memory/telegram/", "voice_", "file-", "voice", "-", "2", ".ogg">>)

\* the results the server returned to /query, once the result view was
\* rendered and sent as the first reply
ServerResults == Val(Env.net.json.data.results)
ViewRendered ==
    /\ CmdDone /\ cmd.handler = "query" /\ Len(TheRun.api) = 1 /\ ~ApiRaised
    /\ Env.net.json.fmt = "json" /\ Len(ServerResults) > 0
    /\ \A i \in 1..Len(ServerResults) : ServerResults[i].score = Some(87)
TheView == TheRun.replies[1].text
\* where the block of result i starts in the view: "*<i>\."
BlockStart(i) ==
    CHOOSE p \in 1..(Len(TheView) - 2) :
        TheView[p] = "*" /\ TheView[p + 1] = Digit(i) /\ TheView[p + 2] = "\\"
StartsAt(s, t, p) == SubSeq(t, p, p + Len(s) - 1) = s
\* the body text shown for a text c: cut to 300 characters when longer
ShownBody(c) == IF Len(c) > 300 THEN SubSeq(c, 1, 297) \o <<".", ".", ".">> ELSE c
BodyOf(i) == Val(ServerResults[i].item.text_content)

\* C20: in the result view a body text longer than 300 characters is cut to
\* its first 297 characters followed by "..." (300 characters) before
\* Markdown escaping, and a body text of at most 300 characters is shown in
\* full, with no ellipsis added.
C20_BodyTruncatedAt300 ==
    ViewRendered
    => \A i \in 1..Len(ServerResults) :
          ~IsNone(ServerResults[i].item.text_content)
          => /\ Len(ShownBody(BodyOf(i))) <= 300
             /\ StartsAt(<<"*", Digit(i), "\\", ".", " ", "\\", "(", "Score: ",
                           "0", "\\", ".", "8", "7", "\\", ")", "*", "\n">>
                         \o QuoteLines(escape_markdown(ShownBody(BodyOf(i))))
                         \o <<"\n", "\n", "time: ">>,
                         TheView, BlockStart(i))

C20_Witness ==
    /\ ViewRendered /\ TheRun.replies[1].delivered
    /\ Len(ServerResults) = 2
    /\ ~IsNone(ServerResults[1].item.text_content) /\ Len(BodyOf(1)) = 301
    /\ ~IsNone(ServerResults[2].item.text_content) /\ Len(BodyOf(2)) = 300
    /\ IsSubstr(<<"7", "\\", ".", "\\", ".", "\\", ".", "\n", "\n", "time: ">>, TheView)
    /\ IsSubstr(<<"8", "\\", ".", "0", "\n", "\n", "time: ">>, TheView)

\* C21: when storing the attachment fails, the media type in the fallback
\* data_uri telegram_<media_type>:<file_id> is the content_type of the item
\* built, for every attachment kind.
C21_FallbackTypeIsContentType ==
    (CmdDone /\ cmd.handler = "remember" /\ Captured.media # {} /\ Env.storage # "stored"
       /\ Len(TheRun.api) = 1)
    => RememberedItem.data_uri
         = Some(<<"telegram_", RememberedItem.content_type, ":">> \o SelectedFileId(Captured))

\* ============================================== lifecycle claims, continued
\* the process ended after configuration validation, initialize() or start()
\* raised
StartupFailed == bot.pc = "terminated" /\ bot.failed_in \in {"config", "initialize", "start"}

\* C22: when startup fails inside create_and_run_bot, the exception reaches
\* main.py's handler, which prints "Bot failed to start" and ends the process
\* with exit status 1; a failed startup never ends with exit status 0.
C22_FailedStartupExitsOne ==
    StartupFailed
    => /\ bot.exit_status = Some(1)
       /\ bot.printed = Some("Bot failed to start")

\* ================================================ handler claims, continued
\* retrieve returned a schema-valid RetrievalResponse with at least one result
ValidResponse ==
    /\ CmdDone /\ cmd.handler = "query" /\ Len(TheRun.api) = 1 /\ ~ApiRaised
    /\ Env.net.json.fmt = "json" /\ Len(ServerResults) > 0
\* the positions in the first reply where the entry numbered i starts
EntryStarts(i) ==
    {p \in 1..(Len(TheView) - 2) :
        TheView[p] = "*" /\ TheView[p + 1] = Digit(i) /\ TheView[p + 2] = "\\"}

\* C23: for every schema-valid RetrievalResponse with at least one result,
\* with or without scores, handle_query_cmd replies with the result list: one
\* entry per result, numbered 1..n in the order of the response, each with
\* its score to two decimals, and never the generic unexpected-error reply.
C23_ValidResponseIsListed ==
    ValidResponse
    => /\ TheView[1] = "Search Results for: "
       /\ TheView # <<"An unexpected error occurred during search.">>
       /\ \A i \in 1..Len(ServerResults) : Cardinality(EntryStarts(i)) = 1
       /\ \A i \in 1..(Len(ServerResults) - 1) :
             \A p \in EntryStarts(i), q \in EntryStarts(i + 1) : p < q
       /\ \A i \in 1..Len(ServerResults) :
             ServerResults[i].score = Some(87)
             => \A p \in EntryStarts(i) :
                   SubSeq(TheView, p + 7, p + 12) = <<"Score: ", "0", "\\", ".", "8", "7">>

\* the first argument of /get_item is the canonical text of a UUID
FirstArgIsUuid ==
    Len(cmd.args) > 0
    /\ \E u \in UUIDs : cmd.args[1] = <<"00000000-0000-0000-0000-00000000000", Digit(u)>>

\* C24: handle_query_cmd and handle_get_item_cmd call the Memory API not at
\* all and reply with the usage text when the command has no argument;
\* handle_get_item_cmd makes no call when its first argument is not a
\* parseable UUID, and it sends the "Invalid item ID format" reply exactly
\* in that case.
C24_NoCallWithoutValidArgument ==
    (CmdDone /\ cmd.handler \in {"query", "get_item"})
    => /\ cmd.args = <<>>
            => /\ TheRun.api = <<>>
               /\ Len(TheRun.replies) = 1
               /\ TheRun.replies[1].text
                    = (IF cmd.handler = "query"
                       THEN <<"Please provide a search query. Usage: /query <search terms>">>
                       ELSE <<"Please provide an item ID. Usage: /get_item <item_id>">>)
       /\ (cmd.handler = "get_item" /\ cmd.args # <<>>)
            => /\ ~FirstArgIsUuid => TheRun.api = <<>>
               /\ RepliesWith(<<"Invalid item ID format">>) # {} <=> ~FirstArgIsUuid
       /\ cmd.args = <<>> => RepliesWith(<<"Invalid item ID format">>) = {}

C24_Witness ==
    /\ CmdDone /\ cmd.handler = "get_item" /\ cmd.args = << <<"zz">> >>
    /\ TheRun.api = <<>>
    /\ TheRun.replies = <<Reply(<<"Invalid item ID format", ". Please provide a valid UUID.">>, TRUE)>>
====
